---- MODULE Spec2Model ----
(***************************************************************************)
(* Model of the newspaper_boy search-aggregation-and-extraction pipeline:  *)
(*   - fetch_article_content   (playwright_scrape.py)  : SpecFetch         *)
(*   - scrape_news_playwright  (playwright_scrape.py)  : Spec              *)
(*   - serper_search           (serper.py)             : SpecSearch        *)
(* Text is kept run-length encoded: a text is a sequence of runs, a run is *)
(* a character class ("w" visible characters, "s" blanks and tabs, "n"     *)
(* newlines) with a count.  Adjacent runs have different classes.          *)
(***************************************************************************)
EXTENDS Integers, Sequences, FiniteSets, TLC

\* ------------------------------------------------------------------ text
Run(c, n) == [c |-> c, n |-> n]

\* Python None where a str is expected
None == << Run("None", 0) >>

\* the exception marker of an awaited operation that raised
Raised == << Run("Raised", 0) >>

RECURSIVE len(_)
\* len(str)
len(t) == IF t = << >> THEN 0 ELSE t[1].n + len(Tail(t))

IsSpace(r) == r.c \in {"s", "n"}

RECURSIVE lstrip(_)
lstrip(t) == IF t = << >> THEN << >>
             ELSE IF IsSpace(t[1]) THEN lstrip(Tail(t)) ELSE t

RECURSIVE rstrip(_)
rstrip(t) == IF t = << >> THEN << >>
             ELSE IF IsSpace(t[Len(t)]) THEN rstrip(SubSeq(t, 1, Len(t) - 1)) ELSE t

\* str.strip()
strip(t) == rstrip(lstrip(t))

\* Python truthiness of an Optional[str]
Truthy(t) == t # None /\ t # << >>

\* re.sub(r"\n{3,}", "\n\n", t)
CollapseNewlines(t) ==
    [i \in DOMAIN t |-> IF t[i].c = "n" /\ t[i].n >= 3 THEN Run("n", 2) ELSE t[i]]

\* re.sub(r"[ \t]+", " ", t)
CollapseBlanks(t) ==
    [i \in DOMAIN t |-> IF t[i].c = "s" THEN Run("s", 1) ELSE t[i]]

RECURSIVE join(_)
\* "\n\n".join(lines)
join(lines) == IF lines = << >> THEN << >>
               ELSE IF Len(lines) = 1 THEN lines[1]
               ELSE lines[1] \o << Run("n", 2) >> \o join(Tail(lines))

\* ------------------------------------------------- fetch_article_content
\* the length floor of the extraction chain and of the final result
MinArticleLen == 200

\* paragraphs of the structural strategy at most this long are junk
JunkLen == 30

article_selectors ==
    << "article", "[role='article']", ".article-body", ".story-body",
       ".post-content", ".entry-content", "main article",
       ".content__article-body", ".article__content" >>

main_selectors ==
    << "main", "article", "[class*='content']", "[class*='post']", "[class*='story']" >>

Selectors == {article_selectors[i] : i \in DOMAIN article_selectors}
                 \cup {main_selectors[i] : i \in DOMAIN main_selectors}

\* what page.query_selector(selector) gives: no element, an exception, or an
\* element with its inner text and the inner texts of its paragraph-like
\* descendants
NoElem == [kind |-> "none", text |-> << >>, paras |-> << >>]
QueryFails == [kind |-> "raise", text |-> << >>, paras |-> << >>]
Elem(text, paras) == [kind |-> "elem", text |-> text, paras |-> paras]

W(n) == << Run("w", n) >>

\* element and page texts the pages are built from
T150 == W(150)
T200 == << Run("s", 3), Run("w", 200), Run("n", 1) >>
T201 == << Run("n", 2), Run("w", 201), Run("s", 1) >>
TBlanky == << Run("w", 100), Run("s", 150), Run("w", 50) >>
TShortArticle == << Run("w", 90), Run("n", 2), Run("w", 40), Run("n", 2), Run("w", 120) >>
TArticle == << Run("w", 90), Run("n", 4), Run("w", 40), Run("n", 2), Run("w", 120),
               Run("n", 2), Run("w", 100), Run("s", 2), Run("w", 100) >>
ParasShort == << W(20), << Run("s", 2), Run("w", 31), Run("s", 2) >>, << Run("s", 4) >> >>
ParasLong == << W(120), W(30), << Run("w", 150), Run("s", 1), Run("w", 150) >> >>

ArticleElems == { NoElem, QueryFails, Elem(T150, ParasShort), Elem(T200, ParasShort),
                  Elem(T201, << >>), Elem(TBlanky, ParasShort), Elem(TArticle, ParasLong) }
BodyElems == { NoElem, Elem(T150, << >>), Elem(T201, << >>) }
MainElems == { NoElem, QueryFails, Elem(<< >>, << >>), Elem(T150, ParasShort),
               Elem(TArticle, ParasLong) }
BodyTexts == { << >>, T150, TShortArticle, TArticle, Raised }

Dom(article, body, main) ==
    [s \in Selectors |-> IF s = "article" THEN article
                         ELSE IF s = ".article-body" THEN body
                         ELSE IF s = "main" THEN main
                         ELSE NoElem]

\* a page: the outcome of page.goto, what each selector finds, and what the
\* whole-page script returns
OkPages == { [goto |-> "ok", dom |-> Dom(a, b, m), body |-> t] :
                a \in ArticleElems, b \in BodyElems, m \in MainElems, t \in BodyTexts }
Pages == OkPages \cup { [goto |-> g, dom |-> Dom(NoElem, NoElem, NoElem), body |-> << >>] :
                            g \in {"timeout", "error"} }

\* one iteration of the selector loop (lines 56-64): the new text_content and
\* whether the loop breaks
SelectorStep(pg, i, tc) ==
    LET e == pg.dom[article_selectors[i]] IN
    IF e.kind = "elem"
    THEN [tc |-> e.text, brk |-> Truthy(e.text) /\ len(strip(e.text)) > MinArticleLen]
    ELSE [tc |-> tc, brk |-> FALSE]

RECURSIVE Strategy1(_, _, _)
\* the selector loop from selector i on
Strategy1(pg, i, tc) ==
    IF i > Len(article_selectors) THEN tc
    ELSE LET s == SelectorStep(pg, i, tc) IN
         IF s.brk THEN s.tc ELSE Strategy1(pg, i + 1, s.tc)

\* a fallback that also runs on a text of exactly the floor
NeedsFallbackAtFloor(tc) == ~Truthy(tc) \/ len(strip(tc)) <= MinArticleLen

\* the guard of strategies 2 and 3 (lines 67 and 98)
NeedsFallback(tc) == ~Truthy(tc) \/ len(strip(tc)) < MinArticleLen

RECURSIVE FindMain(_, _)
\* lines 76-81: the first main selector that finds an element; a failing query
\* raises out of the loop
FindMain(pg, j) ==
    IF j > Len(main_selectors) THEN NoElem
    ELSE IF pg.dom[main_selectors[j]].kind = "none" THEN FindMain(pg, j + 1)
    ELSE pg.dom[main_selectors[j]]

RECURSIVE Lines(_)
\* lines 87-94: the stripped paragraph texts longer than JunkLen
Lines(paras) ==
    IF paras = << >> THEN << >>
    ELSE LET text == strip(paras[1]) IN
         IF text # << >> /\ len(text) > JunkLen
         THEN << text >> \o Lines(Tail(paras))
         ELSE Lines(Tail(paras))

\* lines 67-95
Strategy2(pg, tc) ==
    IF ~NeedsFallback(tc) THEN tc
    ELSE LET main_content == FindMain(pg, 1) IN
         IF main_content.kind = "raise" THEN Raised
         ELSE IF main_content.kind = "none" THEN tc
         ELSE join(Lines(main_content.paras))

\* lines 98-105
Strategy3(pg, tc) ==
    IF tc = Raised THEN Raised
    ELSE IF NeedsFallback(tc) THEN pg.body
    ELSE tc

\* lines 107-113
full_text(tc) ==
    CollapseBlanks(CollapseNewlines(IF Truthy(tc) THEN strip(tc) ELSE << >>))

\* lines 115-122: the value the try block returns
Return(tc) ==
    IF tc = Raised THEN None
    ELSE IF len(full_text(tc)) > MinArticleLen THEN full_text(tc) ELSE None

\* lines 36-122: what the try block of fetch_article_content returns for a page
ExtractText(pg) ==
    IF pg.goto # "ok" THEN None
    ELSE Return(Strategy3(pg, Strategy2(pg, Strategy1(pg, 1, None))))

\* ------------------------------------------------------------ the state
VARIABLES
    \* one call of fetch_article_content
    webpage,        \* the page behind url
    fpc,            \* where the call is
    context,        \* its browsing context: "none", "open", "closed"
    text_content,   \* local text_content
    selector,       \* index of the selector the loop of line 56 is at
    tried,          \* the selectors and strategies run so far, in order
    result,         \* Pending, or what the call returned (None, a text), or Raised
    \* one call of scrape_news_playwright
    citations,      \* the caller's list: addresses of its citations in the heap
    heap,           \* the dicts: citations and their nested metadata maps
    before,         \* the heap as it was when the call began
    concurrency,    \* the argument of the call
    semaphore,      \* the value of asyncio.Semaphore(concurrency)
    browser,        \* "none", "open", "closed"
    main,           \* where the coordinator is
    pc,             \* where each task is (the await it is suspended at)
    text,           \* each task's local text
    ctx,            \* each task's browsing contexts: of the fetch, of the backfill
    raised,         \* whether the handler of line 231 ran in the task
    sleeps,         \* how many politeness sleeps each task has finished
    collected,      \* the result list
    \* one call of serper_search
    search_type,        \* "search", "news" or "videos"
    max_page_count,     \* the argument of the call
    exclude_publishers, \* the argument of the call
    page,               \* the page the loop of line 188 is at
    all_results,        \* the hits accumulated so far
    seen_links,         \* the links accumulated so far
    requests,           \* the page numbers requested so far, in order
    replies,            \* what the provider answered to each request
    spc,                \* where the call is: "loop", "convert", "done", "raised"
    returned,           \* the citations the call returned
    \* one call of _normalize_serper_date
    raw_date,           \* the argument raw
    reference_dt,       \* the argument reference_dt, NoTime for None
    normalized_date,    \* Unset, or what the call returned, or Overflow
    \* one run of the chunking of process_citation
    page_text,          \* local text, the extracted text
    cited,              \* citation["citation_id"]
    chunked,            \* whether the chunks are built, and local chunks
    \* one call of scrape_news_playwright of get.py
    get_results,        \* local results, the hits of the search
    get_semaphore,      \* the value of the semaphore
    get_browser,        \* "none", "open", "closed", or "stopped" with playwright
    get_main,           \* where the coordinator is
    get_pc,             \* where each task process_item is
    get_collected       \* local collected: the tasks that saved a result

fvars == << webpage, fpc, context, text_content, selector, tried, result >>

svars == << citations, heap, before, concurrency, semaphore, browser, main, pc,
            text, ctx, raised, sleeps, collected >>

qvars == << search_type, max_page_count, exclude_publishers, page, all_results,
            seen_links, requests, replies, spc, returned >>

dvars == << raw_date, reference_dt, normalized_date >>

cvars == << page_text, cited, chunked >>

gvars == << get_results, get_semaphore, get_browser, get_main, get_pc, get_collected >>

vars == << fvars, svars, qvars, dvars, cvars, gvars >>

Pending == << Run("Pending", 0) >>

FetchInit ==
    /\ webpage \in Pages
    /\ fpc = "new_context"
    /\ context = "none"
    /\ text_content = None
    /\ selector = 1
    /\ tried = << >>
    /\ result = Pending

\* line 22: browser.new_context raises to the caller or gives a context
NewContext ==
    /\ fpc = "new_context"
    /\ \E ok \in BOOLEAN :
          IF ok THEN /\ context' = "open"
                     /\ fpc' = "route"
                     /\ result' = result
                ELSE /\ context' = context
                     /\ fpc' = "done"
                     /\ result' = Raised
    /\ UNCHANGED << svars, qvars, dvars, cvars, gvars, webpage, text_content, selector, tried >>

\* line 30: context.route, outside the try block
Route ==
    /\ fpc = "route"
    /\ \E ok \in BOOLEAN :
          IF ok THEN fpc' = "new_page" /\ result' = result
                ELSE fpc' = "done" /\ result' = Raised
    /\ UNCHANGED << svars, qvars, dvars, cvars, gvars, webpage, context, text_content, selector, tried >>

\* line 34: context.new_page, outside the try block
NewPage ==
    /\ fpc = "new_page"
    /\ \E ok \in BOOLEAN :
          IF ok THEN fpc' = "goto" /\ result' = result
                ELSE fpc' = "done" /\ result' = Raised
    /\ UNCHANGED << svars, qvars, dvars, cvars, gvars, webpage, context, text_content, selector, tried >>

\* lines 37-55: navigation and the settle delay; a timeout or another error is
\* caught at lines 117-122 and the call returns None
Goto ==
    /\ fpc = "goto"
    /\ IF webpage.goto = "ok"
       THEN fpc' = "selector" /\ result' = result
       ELSE fpc' = "finally" /\ result' = None
    /\ text_content' = None
    /\ selector' = 1
    /\ UNCHANGED << svars, qvars, dvars, cvars, gvars, webpage, context, tried >>

\* lines 56-64: one iteration of the selector loop
QuerySelector ==
    /\ fpc = "selector"
    /\ LET s == SelectorStep(webpage, selector, text_content) IN
       /\ text_content' = s.tc
       /\ IF s.brk \/ selector = Len(article_selectors)
          THEN fpc' = "structural" /\ selector' = selector
          ELSE fpc' = fpc /\ selector' = selector + 1
    /\ tried' = Append(tried, article_selectors[selector])
    /\ UNCHANGED << svars, qvars, dvars, cvars, gvars, webpage, context, result >>

\* lines 67-95: the structural strategy
Structural ==
    /\ fpc = "structural"
    /\ LET tc == Strategy2(webpage, text_content) IN
       IF tc = Raised
       THEN fpc' = "finally" /\ result' = None /\ text_content' = text_content
       ELSE fpc' = "whole_page" /\ result' = result /\ text_content' = tc
    /\ tried' = IF NeedsFallback(text_content) THEN Append(tried, "structural") ELSE tried
    /\ UNCHANGED << svars, qvars, dvars, cvars, gvars, webpage, context, selector >>

\* lines 98-122: the whole-page strategy, the clean-up and the return value
WholePage ==
    /\ fpc = "whole_page"
    /\ LET tc == Strategy3(webpage, text_content) IN
       /\ text_content' = IF tc = Raised THEN text_content ELSE tc
       /\ result' = Return(tc)
    /\ tried' = IF NeedsFallback(text_content) THEN Append(tried, "whole-page") ELSE tried
    /\ fpc' = "finally"
    /\ UNCHANGED << svars, qvars, dvars, cvars, gvars, webpage, context, selector >>

\* lines 123-124: finally: context.close(), then the call returns
CloseContext ==
    /\ fpc = "finally"
    /\ context' = "closed"
    /\ fpc' = "done"
    /\ UNCHANGED << svars, qvars, dvars, cvars, gvars, webpage, text_content, selector, tried, result >>

FetchNext ==
    \/ NewContext \/ Route \/ NewPage \/ Goto \/ QuerySelector
    \/ Structural \/ WholePage \/ CloseContext


\* -------------------------------------------------- scrape_news_playwright
\* bounds of the batches and of the concurrency argument
MaxCitations == 2
MaxConcurrency == 2

\* the content floor of a scrape task (line 161) and the paragraph floor (line 211)
MinContentLen == 400
MinParagraphLen == 80

NoneStr == "<None>"

\* heap addresses: citation i of the batch, its metadata map, the task's copy
\* of it, and the metadata map the task builds
MetaOf(i) == MaxCitations + i
CopyOf(i) == 2 * MaxCitations + i
NewMetaOf(i) == 3 * MaxCitations + i
Addrs == 1 .. 4 * MaxCitations
InputAddrs == 1 .. 2 * MaxCitations

Free == [type |-> "free"]

Dict(items) == [type |-> "dict", items |-> items]

\* a Citation (types.py); metadata is the address of its map, 0 for None
Citation(i, source_type, media_type, title, url, metadata) ==
    [type |-> "citation",
     citation_id |-> [initial |-> "N", number |-> i],
     source_type |-> source_type, media_type |-> media_type,
     title |-> title, url |-> url, access_date |-> "2025-01-01",
     jurisdiction |-> NoneStr, publisher |-> NoneStr, metadata |-> metadata]

SearchMeta == [k \in {"original_date_string", "snippet"} |->
                  IF k = "snippet" THEN "a snippet" ELSE "3 hours ago"]

\* the kinds of citation the batches are built from
Kinds == {"article", "untitled", "bare", "video", "nourl"}

CitationOfKind(i, k) ==
    CASE k = "article"  -> Citation(i, "news", "text", "Headline", "https://a/" , MetaOf(i))
      [] k = "untitled" -> Citation(i, "search", "text", "Untitled", "https://u/", MetaOf(i))
      [] k = "bare"     -> Citation(i, "news", "text", NoneStr, "https://b/", 0)
      [] k = "video"    -> Citation(i, "videos", "video", "Clip", "https://v/", 0)
      [] k = "nourl"    -> Citation(i, "news", "text", "Headline", "", 0)

KindRank(k) ==
    CASE k = "article" -> 1 [] k = "untitled" -> 2 [] k = "bare" -> 3
      [] k = "video" -> 4 [] k = "nourl" -> 5

\* the batches of at most MaxCitations citations; a task is created alike for
\* every position of the list, so the batches are taken up to their order
Batches ==
    { b \in UNION { [1 .. n -> Kinds] : n \in 0 .. MaxCitations } :
        \A j \in DOMAIN b : j = 1 \/ KindRank(b[j - 1]) <= KindRank(b[j]) }

HeapOf(batch) ==
    [a \in Addrs |->
        IF a \in DOMAIN batch THEN CitationOfKind(a, batch[a])
        ELSE IF a - MaxCitations \in DOMAIN batch
                /\ CitationOfKind(a - MaxCitations, batch[a - MaxCitations]).metadata = a
             THEN Dict(SearchMeta)
        ELSE Free]

\* line 140: c.get("media_type") == "text" and c.get("url")
Qualifies(c) == c.media_type = "text" /\ c.url # ""

\* the pages the scraped urls lead to
ScrapePages ==
    { [goto |-> "ok", dom |-> Dom(Elem(TArticle, ParasLong), NoElem, NoElem), body |-> << >>],
      [goto |-> "ok", dom |-> Dom(NoElem, NoElem, NoElem), body |-> TShortArticle],
      [goto |-> "ok", dom |-> Dom(QueryFails, NoElem, NoElem), body |-> TArticle],
      [goto |-> "timeout", dom |-> Dom(NoElem, NoElem, NoElem), body |-> << >>] }

\* what page.title() gives in the backfill
PageTitles == {"", "Page title"}

Tasks == DOMAIN citations

ScrapeInit ==
    /\ \E batch \in Batches :
          /\ citations = [i \in DOMAIN batch |-> i]
          /\ heap = HeapOf(batch)
    /\ before = heap
    /\ concurrency \in 0 .. MaxConcurrency
    /\ semaphore = concurrency
    /\ browser = "none"
    /\ main = "start"
    /\ pc = [i \in DOMAIN citations |-> "none"]
    /\ text = [i \in DOMAIN citations |-> None]
    /\ ctx = [i \in DOMAIN citations |-> [fetch |-> "none", backfill |-> "none"]]
    /\ raised = [i \in DOMAIN citations |-> FALSE]
    /\ sleeps = [i \in DOMAIN citations |-> 0]
    /\ collected = << >>

\* line 191: urlparse(url).netloc.replace("www.", "")
Netloc(url) ==
    CASE url = "https://a/" -> "a"
      [] url = "https://u/" -> "u"
      [] url = "https://b/" -> "b"
      [] url = "https://v/" -> "v"
      [] OTHER -> ""

\* line 168: not citation.get("title") or "Untitled" in citation.get("title", "")
NeedsTitle(c) == c.title \in {NoneStr, "", "Untitled"}

\* the task works on the caller's dict itself
CitationAlias(i) == i

\* line 155: the address of the dict original_citation.copy() gives task i
CitationCopy(i) == CopyOf(i)

\* len(text.split())
WordCount(t) == Cardinality({k \in DOMAIN t : t[k].c = "w"})

Empties(n) == [k \in 1 .. n |-> << >>]

RECURSIVE SplitFrom(_, _)
\* text.split("\n\n"), scanning from the left with cur the piece being read
SplitFrom(t, cur) ==
    IF t = << >> THEN << cur >>
    ELSE IF t[1].c = "n" /\ t[1].n >= 2
         THEN << cur >> \o Empties((t[1].n \div 2) - 1)
                \o SplitFrom(Tail(t), IF t[1].n % 2 = 1 THEN << Run("n", 1) >> ELSE << >>)
         ELSE SplitFrom(Tail(t), Append(cur, t[1]))

split(t) == SplitFrom(t, << >>)

\* the length floor forgotten
ParagraphsKeepAll(pieces) == [k \in DOMAIN pieces |-> strip(pieces[k])]

RECURSIVE Paragraphs(_)
\* lines 210-212
Paragraphs(pieces) ==
    IF pieces = << >> THEN << >>
    ELSE IF len(strip(pieces[1])) > MinParagraphLen
         THEN << strip(pieces[1]) >> \o Paragraphs(Tail(pieces))
         ELSE Paragraphs(Tail(pieces))

RECURSIVE Offset(_, _)
\* sum(len(p) + 2 for p in paragraphs[:k])
Offset(paragraphs, k) ==
    IF k = 0 THEN 0 ELSE len(paragraphs[k]) + 2 + Offset(paragraphs, k - 1)

\* lines 214-224
Chunks(i, citation_id, txt) ==
    LET paragraphs == Paragraphs(split(txt)) IN
    [k \in DOMAIN paragraphs |->
        [textchunk_id |-> << i, k >>,
         citation_id |-> citation_id,
         text |-> paragraphs[k],
         section |-> k,
         char_start |-> Offset(paragraphs, k - 1),
         char_end |-> Offset(paragraphs, k)]]

\* a map of the provenance keys alone, the prior keys forgotten
MergedMetadataFresh(h, c, txt) ==
    [k \in {"full_text_scraped", "scraped_word_count", "serper_snippet"} |->
        CASE k = "full_text_scraped" -> "True"
          [] k = "scraped_word_count" -> WordCount(txt)
          [] OTHER -> NoneStr]

\* lines 196-205: the merged metadata map
MergedMetadata(h, c, txt) ==
    LET old == IF c.metadata = 0 THEN << >> ELSE h[c.metadata].items IN
    [k \in DOMAIN old \cup {"full_text_scraped", "scraped_word_count", "serper_snippet"} |->
        CASE k = "full_text_scraped" -> "True"
          [] k = "scraped_word_count" -> WordCount(txt)
          [] k = "serper_snippet" ->
                IF "serper_snippet" \in DOMAIN old THEN old["serper_snippet"] ELSE NoneStr
          [] OTHER -> old[k]]

\* lines 185-207: citation.update(...) on the task's dict
Enrich(h, i, txt) ==
    LET c == h[CitationCopy(i)] IN
    [h EXCEPT
        ![NewMetaOf(i)] = Dict(MergedMetadata(h, c, txt)),
        ![CitationCopy(i)] =
            [c EXCEPT !.media_type = c.source_type,
                      !.publisher = IF c.publisher \in {NoneStr, ""}
                                    THEN Netloc(c.url) ELSE c.publisher,
                      !.access_date = "now",
                      !.jurisdiction = IF c.jurisdiction \in {NoneStr, ""}
                                       THEN "Canada" ELSE c.jurisdiction,
                      !.metadata = NewMetaOf(i)]]

\* line 228: citation['title'][:60] raises TypeError on a None title
LogRaises(c) == c.title = NoneStr

\* admission that wants a slot to spare
CanAcquireSpare(sem) == sem > 1

\* admission that does not look at the semaphore's value
CanAcquireAlways(sem) == TRUE

\* line 154: a task is admitted when the semaphore's value is positive
CanAcquire(sem) == sem > 0

\* the content floor forgotten
TooShortIgnoresLength(txt) == ~Truthy(txt)

\* the floor of the extraction taken for the content floor
TooShortOfArticleFloor(txt) == ~Truthy(txt) \/ len(txt) < MinArticleLen

\* line 161: not text or len(text) < 400
TooShort(txt) == ~Truthy(txt) \/ len(txt) < MinContentLen

\* a wait that returns with the first finished task
GatherFirstDone(p) == \E i \in DOMAIN p : p[i] = "done"

\* line 238: gather returns when every task has finished
GatherDone(p) == \A i \in DOMAIN p : p[i] \in {"none", "done"}

\* the early return of line 165 leaving without the sleep
FinallySkipsSleep(outcome) == IF outcome = "too_short" THEN "release" ELSE "sleep"

\* lines 233-234: every way out of the try block leads to the sleep
Finally(outcome) == "sleep"

\* lines 139-151 and 237: filter, launch the browser, create the tasks
Start ==
    /\ main = "start"
    /\ LET news_citations == {i \in Tasks : Qualifies(heap[citations[i]])} IN
       IF news_citations = {}
       THEN main' = "returned" /\ UNCHANGED << browser, pc >>
       ELSE /\ main' = "gather"
            /\ browser' = "open"
            /\ pc' = [i \in Tasks |-> IF i \in news_citations THEN "wait" ELSE "none"]
    /\ UNCHANGED << fvars, qvars, dvars, cvars, gvars, citations, heap, before, concurrency, semaphore, text, ctx,
                    raised, sleeps, collected >>

\* lines 154-160: admission, the copy, and the call of fetch_article_content
Acquire(i) ==
    /\ pc[i] = "wait"
    /\ CanAcquire(semaphore)
    /\ semaphore' = semaphore - 1
    /\ heap' = [heap EXCEPT ![CitationCopy(i)] = heap[citations[i]]]
    /\ pc' = [pc EXCEPT ![i] = "new_context"]
    /\ UNCHANGED << fvars, qvars, dvars, cvars, gvars, citations, before, concurrency, browser, main, text, ctx,
                    raised, sleeps, collected >>

\* a browser operation outside any try block of fetch_article_content or of the
\* backfill: it gives its value, or raises to the handler of line 231
Operation(i, at, next, opens) ==
    /\ pc[i] = at
    /\ \E ok \in BOOLEAN :
          IF ok
          THEN /\ pc' = [pc EXCEPT ![i] = next]
               /\ ctx' = IF opens = "" THEN ctx ELSE [ctx EXCEPT ![i][opens] = "open"]
               /\ raised' = raised
          ELSE /\ pc' = [pc EXCEPT ![i] = Finally("exception")]
               /\ ctx' = ctx
               /\ raised' = [raised EXCEPT ![i] = TRUE]
    /\ UNCHANGED << fvars, qvars, dvars, cvars, gvars, citations, heap, before, concurrency, semaphore, browser, main,
                    text, sleeps, collected >>

\* fetch_article_content line 22
FetchNewContext(i) == Operation(i, "new_context", "route", "fetch")

\* fetch_article_content line 30
FetchRoute(i) == Operation(i, "route", "new_page", "")

\* fetch_article_content line 34
FetchNewPage(i) == Operation(i, "new_page", "body", "")

\* fetch_article_content lines 36-122: the try block, on the page the url leads to
FetchBody(i) ==
    /\ pc[i] = "body"
    /\ \E pg \in ScrapePages : text' = [text EXCEPT ![i] = ExtractText(pg)]
    /\ pc' = [pc EXCEPT ![i] = "close"]
    /\ UNCHANGED << fvars, qvars, dvars, cvars, gvars, citations, heap, before, concurrency, semaphore, browser, main,
                    ctx, raised, sleeps, collected >>

\* lines 185-229: merge, chunk, append, log; no await in between
Save(i) ==
    /\ heap' = Enrich(heap, i, text[i])
    /\ collected' = Append(collected,
                        [citation |-> CitationCopy(i),
                         chunks |-> Chunks(i, heap[CitationCopy(i)].citation_id, text[i]),
                         task |-> i])
    /\ raised' = [raised EXCEPT ![i] = LogRaises(heap[CitationCopy(i)])]
    /\ pc' = [pc EXCEPT ![i] = Finally(IF LogRaises(heap[CitationCopy(i)])
                                       THEN "exception" ELSE "result")]

\* fetch_article_content lines 123-124, then lines 161-171
FetchClose(i) ==
    /\ pc[i] = "close"
    /\ ctx' = [ctx EXCEPT ![i].fetch = "closed"]
    /\ IF TooShort(text[i])
       THEN /\ pc' = [pc EXCEPT ![i] = Finally("too_short")]
            /\ UNCHANGED << heap, collected, raised >>
       ELSE IF NeedsTitle(heap[CitationCopy(i)])
       THEN /\ pc' = [pc EXCEPT ![i] = "bf_new_context"]
            /\ UNCHANGED << heap, collected, raised >>
       ELSE Save(i)
    /\ UNCHANGED << fvars, qvars, dvars, cvars, gvars, citations, before, concurrency, semaphore, browser, main, text,
                    sleeps >>

\* line 171
BackfillNewContext(i) == Operation(i, "bf_new_context", "bf_new_page", "backfill")

\* line 172
BackfillNewPage(i) == Operation(i, "bf_new_page", "bf_goto", "")

\* lines 174-176 and 179-180: a failed navigation is swallowed
BackfillGoto(i) ==
    /\ pc[i] = "bf_goto"
    /\ \E ok \in BOOLEAN : pc' = [pc EXCEPT ![i] = IF ok THEN "bf_title" ELSE "bf_close"]
    /\ UNCHANGED << fvars, qvars, dvars, cvars, gvars, citations, heap, before, concurrency, semaphore, browser, main,
                    text, ctx, raised, sleeps, collected >>

\* lines 177-180: page_title.strip() or citation["title"]; a failure is swallowed
BackfillTitle(i) ==
    /\ pc[i] = "bf_title"
    /\ \/ \E page_title \in PageTitles :
             heap' = [heap EXCEPT ![CitationCopy(i)].title =
                         IF page_title # "" THEN page_title ELSE @]
       \/ heap' = heap
    /\ pc' = [pc EXCEPT ![i] = "bf_close"]
    /\ UNCHANGED << fvars, qvars, dvars, cvars, gvars, citations, before, concurrency, semaphore, browser, main,
                    text, ctx, raised, sleeps, collected >>

\* lines 181-182, then lines 185-229
BackfillClose(i) ==
    /\ pc[i] = "bf_close"
    /\ ctx' = [ctx EXCEPT ![i].backfill = "closed"]
    /\ Save(i)
    /\ UNCHANGED << fvars, qvars, dvars, cvars, gvars, citations, before, concurrency, semaphore, browser, main, text,
                    sleeps >>

\* line 234: the politeness sleep ends
Sleep(i) ==
    /\ pc[i] = "sleep"
    /\ sleeps' = [sleeps EXCEPT ![i] = @ + 1]
    /\ pc' = [pc EXCEPT ![i] = "release"]
    /\ UNCHANGED << fvars, qvars, dvars, cvars, gvars, citations, heap, before, concurrency, semaphore, browser, main,
                    text, ctx, raised, collected >>

\* line 154: leaving the async with block releases the slot
Release(i) ==
    /\ pc[i] = "release"
    /\ semaphore' = semaphore + 1
    /\ pc' = [pc EXCEPT ![i] = "done"]
    /\ UNCHANGED << fvars, qvars, dvars, cvars, gvars, citations, heap, before, concurrency, browser, main, text, ctx,
                    raised, sleeps, collected >>

\* lines 238-243: gather returns, the browser is closed, the call returns
CloseBrowser ==
    /\ main = "gather"
    /\ GatherDone(pc)
    /\ browser' = "closed"
    /\ main' = "returned"
    /\ UNCHANGED << fvars, qvars, dvars, cvars, gvars, citations, heap, before, concurrency, semaphore, pc, text, ctx,
                    raised, sleeps, collected >>

Next ==
    \/ Start
    \/ \E i \in Tasks : Acquire(i)
    \/ \E i \in Tasks : FetchNewContext(i)
    \/ \E i \in Tasks : FetchRoute(i)
    \/ \E i \in Tasks : FetchNewPage(i)
    \/ \E i \in Tasks : FetchBody(i)
    \/ \E i \in Tasks : FetchClose(i)
    \/ \E i \in Tasks : BackfillNewContext(i)
    \/ \E i \in Tasks : BackfillNewPage(i)
    \/ \E i \in Tasks : BackfillGoto(i)
    \/ \E i \in Tasks : BackfillTitle(i)
    \/ \E i \in Tasks : BackfillClose(i)
    \/ \E i \in Tasks : Sleep(i)
    \/ \E i \in Tasks : Release(i)
    \/ CloseBrowser

\* the call of fetch_article_content that SpecFetch follows is idle here
FetchIdle ==
    /\ webpage = [goto |-> "ok", dom |-> Dom(NoElem, NoElem, NoElem), body |-> << >>]
    /\ fpc = "idle"
    /\ context = "none"
    /\ text_content = None
    /\ selector = 1
    /\ tried = << >>
    /\ result = Pending

\* ------------------------------------- the chunking of process_citation
\* the bound of the number of paragraphs of an extracted text
MaxParagraphs == 3

\* the paragraphs the extracted texts are built from: around the floor of
\* line 211, with a newline, with a blank
ParagraphTexts ==
    { W(90), W(40), W(80), W(81), W(120),
      << Run("w", 150), Run("n", 1), Run("w", 150) >>,
      << Run("w", 100), Run("s", 1), Run("w", 100) >> }

\* what stands between two paragraphs: an empty line, also after or before
\* a blank
Separators ==
    { << Run("n", 2) >>, << Run("s", 1), Run("n", 2) >>, << Run("n", 2), Run("s", 1) >> }

RECURSIVE Assemble(_, _)
\* the text of the paragraphs ps with the separators seps between them
Assemble(ps, seps) ==
    IF Len(ps) = 1 THEN ps[1]
    ELSE ps[1] \o seps[1] \o Assemble(Tail(ps), Tail(seps))

\* line 161: the texts that reach the chunking have at least 400 characters
ArticleTexts ==
    { t \in UNION { { Assemble(ps, seps) : ps \in [1 .. n -> ParagraphTexts],
                                            seps \in [1 .. n - 1 -> Separators] } :
                    n \in 1 .. MaxParagraphs } :
        len(t) >= MinContentLen }

\* the chunks are not built yet
NotChunked == [done |-> FALSE, chunks |-> << >>]

ChunkInit ==
    /\ page_text \in ArticleTexts
    /\ cited \in { [initial |-> "N", number |-> 1], [initial |-> "V", number |-> 12] }
    /\ chunked = NotChunked

\* lines 210-224
Split ==
    /\ ~chunked.done
    /\ chunked' = [done |-> TRUE, chunks |-> Chunks(1, cited, page_text)]
    /\ UNCHANGED << fvars, svars, qvars, dvars, gvars, page_text, cited >>

\* no chunking is followed here
ChunkIdle ==
    /\ page_text = << >>
    /\ cited = [initial |-> "N", number |-> 1]
    /\ chunked = NotChunked

\* ---------------------------------------------- _normalize_serper_date
\* a datetime: the day counted from 0001-01-01, the minute of the day, the
\* second of the minute
Time(day, minute, second) ==
    [kind |-> "time", day |-> day, minute |-> minute, second |-> second]

\* None where a datetime is expected
NoTime == [kind |-> "none", day |-> 0, minute |-> 0, second |-> 0]

\* the OverflowError of an operation that leaves the range of datetime
Overflow == [kind |-> "raise", day |-> 0, minute |-> 0, second |-> 0]

\* line 50, timedelta(minutes=1) in timedelta(hours=1)
MinutesPerHour == 60

\* line 52, timedelta(minutes=1) in timedelta(days=1)
MinutesPerDay == 1440

\* the day of datetime.max, 9999-12-31
MaxDay == 3652058

\* line 42: the day of 1000-01-01, the first of a year >= 1000
Year1000 == 364877

\* line 58: now - delta, for a delta of days days and minutes minutes: the
\* subtraction raises when the result is no datetime
Minus(t, days, minutes) ==
    LET m == t.minute - minutes
        day == t.day - days + (m \div MinutesPerDay)
    IN IF day < 0 \/ day > MaxDay THEN Overflow
       ELSE Time(day, m % MinutesPerDay, t.second)

\* a string is a sequence of tokens: a run of n digits read as the number n
\* ("num"), a run of n blanks ("sp"), an absolute date ("date", the n-th of
\* Dates) or a word; up says that its letters are upper-case
Tok(t, n) == [t |-> t, n |-> n]

Str(up, toks) == [up |-> up, toks |-> toks]

\* None where a string is expected
NoRaw == Str(FALSE, << Tok("none", 0) >>)

RECURSIVE dstrip(_)
\* line 37: raw.strip()
dstrip(toks) ==
    IF toks = << >> THEN toks
    ELSE IF toks[1].t = "sp" THEN dstrip(Tail(toks))
    ELSE IF toks[Len(toks)].t = "sp" THEN dstrip(SubSeq(toks, 1, Len(toks) - 1))
    ELSE toks

\* line 37: raw.strip().lower()
lower(raw) == Str(FALSE, dstrip(raw.toks))

\* the absolute dates a string may hold: a naive one, one with an offset of
\* -300 minutes, one of the year 999, one of the last day of datetime with
\* an offset of -300 minutes
Dates ==
    << [dt |-> Time(739006, 600, 0), aware |-> FALSE, utcoffset |-> 0],
       [dt |-> Time(739006, 1380, 0), aware |-> TRUE, utcoffset |-> 0 - 300],
       [dt |-> Time(Year1000 - 1, 0, 0), aware |-> FALSE, utcoffset |-> 0],
       [dt |-> Time(MaxDay, 1380, 0), aware |-> TRUE, utcoffset |-> 0 - 300] >>

\* line 41: dateutil_parser.parse(raw, fuzzy=False) reads a string that is
\* one absolute date and raises ValueError on any other
ParseFails(raw) == ~(Len(raw.toks) = 1 /\ raw.toks[1].t = "date")

\* lines 40-46: the absolute date of raw in UTC, NoTime when the parse
\* fails, the year is before 1000 or the conversion to UTC overflows
Absolute(raw) ==
    IF ParseFails(raw) THEN NoTime
    ELSE LET parsed == Dates[raw.toks[1].n] IN
         IF parsed.dt.day < Year1000 THEN NoTime
         ELSE IF ~parsed.aware THEN parsed.dt
         ELSE IF Minus(parsed.dt, 0, parsed.utcoffset) = Overflow THEN NoTime
         ELSE Minus(parsed.dt, 0, parsed.utcoffset)

\* lines 49-56: re.match of (\d+)\s*<unit>s? ago at the start of raw
AfterCount(raw) ==
    IF Len(raw.toks) >= 2 /\ raw.toks[2].t = "sp"
    THEN SubSeq(raw.toks, 3, Len(raw.toks)) ELSE Tail(raw.toks)

MatchAgo(raw, units) ==
    /\ ~raw.up
    /\ raw.toks # << >>
    /\ raw.toks[1].t = "num"
    /\ Len(AfterCount(raw)) >= 3
    /\ AfterCount(raw)[1].t \in units
    /\ AfterCount(raw)[2] = Tok("sp", 1)
    /\ AfterCount(raw)[3].t = "ago"

\* line 60: "yesterday" in raw
HasYesterday(raw) ==
    ~raw.up /\ \E k \in DOMAIN raw.toks : raw.toks[k].t = "yesterday"

\* line 65: raw in ("just now", "moments ago", "seconds ago")
IsJustNow(raw) ==
    /\ ~raw.up
    /\ raw.toks \in { << Tok("just", 0), Tok("sp", 1), Tok("now", 0) >>,
                      << Tok("moments", 0), Tok("sp", 1), Tok("ago", 0) >>,
                      << Tok("seconds", 0), Tok("sp", 1), Tok("ago", 0) >> }

\* lines 61-63: (now - timedelta(days=1)).replace(hour=0, minute=0, ...)
Yesterday(now) ==
    IF Minus(now, 1, 0) = Overflow THEN Overflow
    ELSE Time(Minus(now, 1, 0).day, 0, 0)

\* lines 48-68: the relative rules on the trimmed lower-case string
Relative(raw, now) ==
    IF MatchAgo(raw, {"minute", "minutes"}) THEN Minus(now, 0, raw.toks[1].n)
    ELSE IF MatchAgo(raw, {"hour", "hours"})
         THEN Minus(now, 0, MinutesPerHour * raw.toks[1].n)
    ELSE IF MatchAgo(raw, {"day", "days"}) THEN Minus(now, raw.toks[1].n, 0)
    ELSE IF HasYesterday(raw) THEN Yesterday(now)
    ELSE IF IsJustNow(raw) THEN now
    ELSE NoTime

\* _normalize_serper_date, lines 25-68, with now the reference time or the
\* clock's time: a datetime, NoTime for None, Overflow when line 58 or
\* line 61 raises
normalize_serper_date(raw, now) ==
    IF raw = NoRaw \/ raw.toks = << >> THEN NoTime
    ELSE IF Absolute(lower(raw)) # NoTime THEN Absolute(lower(raw))
    ELSE Relative(lower(raw), now)

\* the largest count of a relative expression
BigCount == 5000000

Counts == {0, 1, 3, BigCount}

Units == {"minute", "minutes", "hour", "hours", "day", "days"}

Sp == Tok("sp", 1)

\* "<N> <unit> ago" for every count and unit
AgoTexts == { << Tok("num", n), Sp, Tok(u, 0), Sp, Tok("ago", 0) >> : n \in Counts, u \in Units }

\* the texts of the strings given to the function: empty, blank, relative
\* expressions also without blank, with two blanks, with text before or
\* after, other units, the words of lines 60 and 65 alone, padded and inside
\* other text, garbage, the absolute dates
RawTexts ==
    AgoTexts \cup
    { << >>, << Sp >>, << Tok("word", 0) >>,
      << Tok("num", 3), Tok("days", 0), Sp, Tok("ago", 0) >>,
      << Tok("num", 3), Tok("sp", 2), Tok("days", 0), Sp, Tok("ago", 0) >>,
      << Tok("num", 3), Sp, Tok("days", 0), Tok("sp", 2), Tok("ago", 0) >>,
      << Tok("num", 3), Sp, Tok("days", 0), Sp, Tok("ago", 0), Sp, Tok("yesterday", 0) >>,
      << Tok("num", 3), Sp, Tok("days", 0), Sp, Tok("ago", 0), Sp, Tok("word", 0) >>,
      << Tok("word", 0), Sp, Tok("num", 3), Sp, Tok("days", 0), Sp, Tok("ago", 0) >>,
      << Tok("num", 3), Sp, Tok("weeks", 0), Sp, Tok("ago", 0) >>,
      << Tok("num", 3), Sp, Tok("seconds", 0), Sp, Tok("ago", 0) >>,
      << Tok("yesterday", 0) >>,
      << Tok("word", 0), Sp, Tok("yesterday", 0) >>,
      << Tok("just", 0), Sp, Tok("now", 0) >>,
      << Tok("moments", 0), Sp, Tok("ago", 0) >>,
      << Tok("seconds", 0), Sp, Tok("ago", 0) >>,
      << Sp, Tok("just", 0), Sp, Tok("now", 0), Sp >>,
      << Tok("just", 0), Tok("sp", 2), Tok("now", 0) >>,
      << Tok("just", 0), Sp, Tok("now", 0), Sp, Tok("word", 0) >> } \cup
    { << Tok("date", n) >> : n \in DOMAIN Dates }

\* the strings given to the function, and None
RawDates == { Str(up, toks) : up \in BOOLEAN, toks \in RawTexts } \cup { NoRaw }

\* line 48: what datetime.now(timezone.utc) may return
Clock == { Time(739923, 600, 30), Time(739923, 5, 0) }

\* the reference times given to the function: the clock's, and the last
\* second of an earlier day
RefTimes == Clock \cup { Time(739006, 1439, 59) }

\* the call has not returned
Unset == [kind |-> "unset", day |-> 0, minute |-> 0, second |-> 0]

DateInit ==
    /\ raw_date \in RawDates
    /\ reference_dt \in RefTimes \cup { NoTime }
    /\ normalized_date = Unset

\* line 48: now = reference_dt or datetime.now(timezone.utc)
Nows(ref) == IF ref = NoTime THEN Clock ELSE { ref }

\* lines 25-68: the call
Normalize ==
    /\ normalized_date = Unset
    /\ \E now \in Nows(reference_dt) :
          normalized_date' = normalize_serper_date(raw_date, now)
    /\ UNCHANGED << fvars, svars, qvars, cvars, gvars, raw_date, reference_dt >>

\* no call of _normalize_serper_date is followed here
DateIdle ==
    /\ raw_date = NoRaw
    /\ reference_dt = NoTime
    /\ normalized_date = Unset

\* ------------------------------------------------------------ serper_search
\* the bound of max_page_count
MaxPages == 3

\* line 226: a page with fewer hits is the last one
PageSize == 10

\* a hit of the provider with its date string; link 0 stands for a hit
\* without link
DatedHit(link, source, date) ==
    [link |-> link, title |-> "a title", source |-> source, date |-> date]

\* a hit without date
Hit(link, source) == DatedHit(link, source, NoRaw)

\* the date strings of hits: "1 hour ago", and "<BigCount> days ago"
HourAgo == Str(FALSE, << Tok("num", 1), Sp, Tok("hour", 0), Sp, Tok("ago", 0) >>)

TooLongAgo == Str(FALSE, << Tok("num", BigCount), Sp, Tok("days", 0), Sp, Tok("ago", 0) >>)

\* the hits of a page: n hits with links from.. from + n - 1, every third
\* of them dated
HitsFrom(from, n) ==
    [k \in 1 .. n |-> DatedHit(from + k - 1,
                               IF k % 2 = 0 THEN "Tabloid" ELSE "Gazette",
                               IF k % 3 = 0 THEN HourAgo ELSE NoRaw)]

\* a full page of new links whose first hit is dated "<BigCount> days ago"
OldPage(p) ==
    [HitsFrom(PageSize * (p - 1) + 1, PageSize) EXCEPT ![1].date = TooLongAgo]

\* what the provider may answer to the request for page p: a failure, or hits:
\* none, a short page, a full page of new links, a full page repeating the
\* links of page 1, a page longer than PageSize, a short page with a repeated
\* link and a hit without link, a full page with a hit dated long ago
Replies(p) ==
    { [kind |-> k, items |-> << >>] : k \in {"exception", "http_error", "bad_json"} }
    \cup
    { [kind |-> "ok", items |-> items] :
        items \in { << >>,
                    HitsFrom(PageSize * (p - 1) + 1, 3),
                    HitsFrom(PageSize * (p - 1) + 1, PageSize),
                    HitsFrom(1, PageSize),
                    HitsFrom(PageSize * (p - 1) + 1, PageSize + 1),
                    << Hit(1, "Gazette"), Hit(1, "Tabloid"), Hit(0, "Gazette") >>,
                    OldPage(p) } }

\* line 221: item.get("link") or item.get("url")
LinkOf(item) == item.link

RECURSIVE Accumulate(_, _, _)
\* lines 220-224: the hits of a page whose link is new are appended
Accumulate(items, results, seen) ==
    IF items = << >> THEN [results |-> results, seen |-> seen]
    ELSE IF LinkOf(items[1]) # 0 /\ LinkOf(items[1]) \notin seen
         THEN Accumulate(Tail(items), Append(results, items[1]),
                         seen \cup {LinkOf(items[1])})
         ELSE Accumulate(Tail(items), results, seen)

\* the short-page test forgotten
LastPageNever(new_results) == FALSE

\* line 226
LastPage(new_results) == Len(new_results) < PageSize

\* line 104: source_type[:1].upper()
Initial(source_type) ==
    CASE source_type = "news" -> "N" [] source_type = "videos" -> "V"
      [] source_type = "search" -> "S"

RECURSIVE Digits(_)
\* the decimal digits of a number, as the format of line 104 writes them
Digits(n) == IF n < 10 THEN << n >> ELSE Digits(n \div 10) \o << n % 10 >>

\* an id without the number of the hit
FormatUnnumbered(source_type, idx) == << Initial(source_type), 0, 0, 0, 0 >>

\* line 104: f"{source_type[:1].upper()}{idx:04d}", the initial and the digits
\* of idx with zeros before them up to four digits
Format(source_type, idx) ==
    << Initial(source_type) >>
        \o [k \in 1 .. 4 - Len(Digits(idx)) |-> 0] \o Digits(idx)

\* lines 90-94: the hits the loop does not skip: those with a url that no
\* earlier hit carries
Processed(results) ==
    { idx \in DOMAIN results :
        /\ LinkOf(results[idx]) # 0
        /\ \A j \in 1 .. idx - 1 : LinkOf(results[j]) # LinkOf(results[idx]) }

\* line 99: the normalization of the date of a hit the loop does not skip
\* raises, and _serper_results_to_citations with it
ConversionRaises(results, now) ==
    \E idx \in Processed(results) :
        normalize_serper_date(results[idx].date, now) = Overflow

\* the test on seen_urls forgotten
SeenNever(url, seen_urls) == FALSE

\* line 92: url in seen_urls
Seen(url, seen_urls) == url \in seen_urls

\* the test on the publisher forgotten
ExcludedNever(publisher, excluded) == FALSE

\* line 126: publisher in exclude_publishers
Excluded(publisher, excluded) == publisher \in excluded

RECURSIVE ToCitations(_, _, _, _, _, _)
\* _serper_results_to_citations, lines 87-129, from hit idx on
ToCitations(results, idx, seen_urls, source_type, excluded, now) ==
    IF idx > Len(results) THEN << >>
    ELSE LET item == results[idx]
             url == LinkOf(item)
         IN IF url = 0 \/ Seen(url, seen_urls)
            THEN ToCitations(results, idx + 1, seen_urls, source_type, excluded, now)
            ELSE LET citation ==
                        [citation_id |-> [initial |-> Initial(source_type), number |-> idx],
                         source_type |-> source_type,
                         title |-> item.title,
                         date |-> normalize_serper_date(item.date, now),
                         url |-> url,
                         publisher |-> item.source,
                         media_type |-> IF source_type = "videos" THEN "video" ELSE "text"]
                     rest == ToCitations(results, idx + 1, seen_urls \cup {url},
                                         source_type, excluded, now)
                 IN IF ~Excluded(item.source, excluded) THEN << citation >> \o rest
                    ELSE rest

SearchInit ==
    /\ search_type \in {"search", "news", "videos"}
    /\ max_page_count \in 0 .. MaxPages
    /\ exclude_publishers \in { {}, {"Tabloid"} }
    /\ page = 1
    /\ all_results = << >>
    /\ seen_links = {}
    /\ requests = << >>
    /\ replies = << >>
    /\ spc = "loop"
    /\ returned = << >>

\* lines 188-229: one iteration of the loop: the request for page, its answer,
\* and what the loop does with it
RequestPage ==
    /\ spc = "loop"
    /\ page <= max_page_count
    /\ requests' = Append(requests, page)
    /\ \E reply \in Replies(page) :
          /\ replies' = Append(replies, reply)
          /\ IF reply.kind # "ok" \/ reply.items = << >>
             THEN /\ spc' = "convert"
                  /\ UNCHANGED << all_results, seen_links, page >>
             ELSE LET acc == Accumulate(reply.items, all_results, seen_links) IN
                  /\ all_results' = acc.results
                  /\ seen_links' = acc.seen
                  /\ IF LastPage(reply.items)
                     THEN spc' = "convert" /\ page' = page
                     ELSE spc' = spc /\ page' = page + 1
    /\ UNCHANGED << fvars, svars, dvars, cvars, gvars, search_type, max_page_count, exclude_publishers,
                    returned >>

\* line 188: the loop ends after max_page_count pages
LoopEnds ==
    /\ spc = "loop"
    /\ page > max_page_count
    /\ spc' = "convert"
    /\ UNCHANGED << fvars, svars, dvars, cvars, gvars, search_type, max_page_count, exclude_publishers,
                    page, all_results, seen_links, requests, replies, returned >>

\* lines 231-234: the conversion of the accumulated hits, at the clock's
\* time, returns the citations or raises
Convert ==
    /\ spc = "convert"
    /\ \E now \in Clock :
          IF ConversionRaises(all_results, now)
          THEN spc' = "raised" /\ returned' = returned
          ELSE /\ spc' = "done"
               /\ returned' = ToCitations(all_results, 1, {}, search_type,
                                          exclude_publishers, now)
    /\ UNCHANGED << fvars, svars, dvars, cvars, gvars, search_type, max_page_count, exclude_publishers,
                    page, all_results, seen_links, requests, replies >>

SearchNext == RequestPage \/ LoopEnds \/ Convert

\* ------------------------------------------ _serper_results_to_citations
\* the bound of the number of hits given to the function
MaxHits == 3

\* the hits given to the function: without link or with one of two links,
\* of two publishers, undated or dated
SomeHits ==
    { DatedHit(link, sd[1], sd[2]) :
        link \in 0 .. 2,
        sd \in { << "Gazette", NoRaw >>, << "Tabloid", NoRaw >>,
                 << "Gazette", HourAgo >>, << "Tabloid", TooLongAgo >> } }

\* the lists of at most MaxHits hits
HitLists == UNION { [1 .. n -> SomeHits] : n \in 0 .. MaxHits }

\* lines 71-89: a call of the function on a list of hits; the call is the
\* step Convert
ConvertInit ==
    /\ search_type \in {"search", "news", "videos"}
    /\ max_page_count = 0
    /\ exclude_publishers \in { {}, {"Tabloid"} }
    /\ page = 1
    /\ all_results \in HitLists
    /\ seen_links = {}
    /\ requests = << >>
    /\ replies = << >>
    /\ spc = "convert"
    /\ returned = << >>

\* the call of serper_search that SpecSearch follows is idle here
SearchIdle ==
    /\ search_type = "news"
    /\ max_page_count = 0
    /\ exclude_publishers = {}
    /\ page = 1
    /\ all_results = << >>
    /\ seen_links = {}
    /\ requests = << >>
    /\ replies = << >>
    /\ spc = "idle"
    /\ returned = << >>

\* ---------------------------------------------------------------------
\* scrape_news_playwright of get.py: the keyword-driven coordinator

\* the hits of one search
MaxItems == 3

\* a hit of the search: with its "link" field or without it
Items == {"hit", "nolink"}

GetInit ==
    /\ get_results \in UNION { [1 .. n -> Items] : n \in 0 .. MaxItems }
    /\ get_semaphore \in 1 .. MaxConcurrency
    /\ get_browser = "none"
    /\ get_main = "start"
    /\ get_pc = [i \in DOMAIN get_results |-> "none"]
    /\ get_collected = << >>

\* lines 162-165 and 232: the browser is launched, one task per hit is created
GetStart ==
    /\ get_main = "start"
    /\ get_browser' = "open"
    /\ get_pc' = [i \in DOMAIN get_results |-> "wait"]
    /\ get_main' = "gather"
    /\ UNCHANGED << fvars, svars, qvars, dvars, cvars, get_results, get_semaphore, get_collected >>

\* lines 168-169: admission, then item["link"] outside the try block: a hit
\* without the field raises KeyError, which leaves the async with block
\* (the slot is released) and ends the task with the exception
GetAcquire(i) ==
    /\ get_pc[i] = "wait"
    /\ get_semaphore > 0
    /\ IF get_results[i] = "nolink"
       THEN get_pc' = [get_pc EXCEPT ![i] = "failed"] /\ get_semaphore' = get_semaphore
       ELSE get_pc' = [get_pc EXCEPT ![i] = "fetch"] /\ get_semaphore' = get_semaphore - 1
    /\ UNCHANGED << fvars, svars, qvars, dvars, cvars, get_results, get_browser, get_main, get_collected >>

\* lines 174-178 and 226-227: fetch_article_content gives a text of at least
\* 300 characters, or a shorter one or None, or raises into the handler of
\* line 226; without the browser it can only raise
GetFetch(i) ==
    /\ get_pc[i] = "fetch"
    /\ \E outcome \in {"text", "short", "raise"} :
          /\ get_browser # "open" => outcome = "raise"
          /\ get_pc' = [get_pc EXCEPT ![i] = IF outcome = "text" THEN "backfill" ELSE "sleep"]
    /\ UNCHANGED << fvars, svars, qvars, dvars, cvars, get_results, get_semaphore, get_browser, get_main, get_collected >>

\* lines 183-227: the title read, in which a failed goto or title() is
\* swallowed, then the citation, the chunks and the append; a failure of
\* new_context, new_page or context.close goes to the handler of line 226
GetBackfill(i) ==
    /\ get_pc[i] = "backfill"
    /\ \E ok \in BOOLEAN :
          /\ get_browser # "open" => ~ok
          /\ get_collected' = IF ok THEN Append(get_collected, i) ELSE get_collected
    /\ get_pc' = [get_pc EXCEPT ![i] = "sleep"]
    /\ UNCHANGED << fvars, svars, qvars, dvars, cvars, get_results, get_semaphore, get_browser, get_main >>

\* lines 228-229 and 168: the sleep ends, the slot is released, the task ends
GetSleep(i) ==
    /\ get_pc[i] = "sleep"
    /\ get_semaphore' = get_semaphore + 1
    /\ get_pc' = [get_pc EXCEPT ![i] = "done"]
    /\ UNCHANGED << fvars, svars, qvars, dvars, cvars, get_results, get_browser, get_main, get_collected >>

\* line 233: gather(..., return_exceptions=False) raises the exception of the
\* first task that ended with one; it leaves the block of line 164, which
\* stops playwright, and the call, without the close of line 235
GetGatherRaises ==
    /\ get_main = "gather"
    /\ \E i \in DOMAIN get_pc : get_pc[i] = "failed"
    /\ get_main' = "raised"
    /\ get_browser' = "stopped"
    /\ UNCHANGED << fvars, svars, qvars, dvars, cvars, get_results, get_semaphore, get_pc, get_collected >>

\* lines 241-243: asyncio.run cancels the tasks that are left when the call
\* has raised; a task that held a slot gives it back
GetCancel(i) ==
    /\ get_main = "raised"
    /\ get_pc[i] \in {"wait", "fetch", "backfill", "sleep"}
    /\ get_semaphore' = IF get_pc[i] = "wait" THEN get_semaphore ELSE get_semaphore + 1
    /\ get_pc' = [get_pc EXCEPT ![i] = "cancelled"]
    /\ UNCHANGED << fvars, svars, qvars, dvars, cvars, get_results, get_browser, get_main, get_collected >>

\* lines 233-237: every task has ended without an exception, the browser is
\* closed and collected is returned
GetClose ==
    /\ get_main = "gather"
    /\ \A i \in DOMAIN get_pc : get_pc[i] = "done"
    /\ get_browser' = "closed"
    /\ get_main' = "returned"
    /\ UNCHANGED << fvars, svars, qvars, dvars, cvars, get_results, get_semaphore, get_pc, get_collected >>

GetNext ==
    \/ GetStart
    \/ \E i \in DOMAIN get_pc : GetAcquire(i)
    \/ \E i \in DOMAIN get_pc : GetFetch(i)
    \/ \E i \in DOMAIN get_pc : GetBackfill(i)
    \/ \E i \in DOMAIN get_pc : GetSleep(i)
    \/ GetGatherRaises
    \/ \E i \in DOMAIN get_pc : GetCancel(i)
    \/ GetClose

\* the call of the coordinator of get.py that SpecGet follows is idle here
GetIdle ==
    /\ get_results = << >>
    /\ get_semaphore = 0
    /\ get_browser = "none"
    /\ get_main = "idle"
    /\ get_pc = << >>
    /\ get_collected = << >>

\* ---------------------------------------------------------------------
\* the specifications

Init == FetchIdle /\ ScrapeInit /\ SearchIdle /\ DateIdle /\ ChunkIdle /\ GetIdle

Spec == Init /\ [][Next]_vars

\* the call of scrape_news_playwright that Spec follows is idle here
ScrapeIdle ==
    /\ citations = << >>
    /\ heap = HeapOf(<< >>)
    /\ before = heap
    /\ concurrency = 0
    /\ semaphore = 0
    /\ browser = "none"
    /\ main = "idle"
    /\ pc = << >>
    /\ text = << >>
    /\ ctx = << >>
    /\ raised = << >>
    /\ sleeps = << >>
    /\ collected = << >>

InitFetch == FetchInit /\ ScrapeIdle /\ SearchIdle /\ DateIdle /\ ChunkIdle /\ GetIdle

SpecFetch == InitFetch /\ [][FetchNext]_vars

InitSearch == FetchIdle /\ ScrapeIdle /\ SearchInit /\ DateIdle /\ ChunkIdle /\ GetIdle

SpecSearch == InitSearch /\ [][SearchNext]_vars

InitConvert == FetchIdle /\ ScrapeIdle /\ ConvertInit /\ DateIdle /\ ChunkIdle /\ GetIdle

SpecConvert == InitConvert /\ [][Convert]_vars

InitDate == FetchIdle /\ ScrapeIdle /\ SearchIdle /\ DateInit /\ ChunkIdle /\ GetIdle

SpecDate == InitDate /\ [][Normalize]_vars

InitChunk == FetchIdle /\ ScrapeIdle /\ SearchIdle /\ DateIdle /\ ChunkInit /\ GetIdle

SpecChunk == InitChunk /\ [][Split]_vars

InitGet == FetchIdle /\ ScrapeIdle /\ SearchIdle /\ DateIdle /\ ChunkIdle /\ GetInit

SpecGet == InitGet /\ [][GetNext]_vars


\* ------------------------------------------------------------------ claims
\* the tasks between acquiring and releasing the semaphore
Admitted == {i \in Tasks : pc[i] \notin {"none", "wait", "done"}}

HasResult(i) == \E k \in DOMAIN collected : collected[k].task = i

\* C1: for every concurrency c >= 1, the number of tasks between acquiring
\* and releasing the semaphore never exceeds c.
C1_ConcurrencyBound ==
    concurrency >= 1 => Cardinality(Admitted) <= concurrency

\* the bound is reached while another task waits for admission
C1_Witness ==
    /\ concurrency >= 1
    /\ Cardinality(Admitted) = concurrency
    /\ \E i \in Tasks : pc[i] = "wait"

\* C2: a task in which a step raised (the handler of line 231 ran) adds no
\* entry to the result list.
C2_FailedTaskAddsNoResult ==
    \A i \in Tasks : raised[i] => ~HasResult(i)

\* C3: the browser is closed only after every task has finished: never while
\* a task waits for admission or is in flight.
C3_BrowserClosedAfterTasks ==
    browser = "closed" => \A i \in Tasks : pc[i] \in {"none", "done"}

\* the browser is closed after a task that failed and a task that did not
C3_Witness ==
    /\ browser = "closed"
    /\ \E i \in Tasks : pc[i] = "done" /\ raised[i]
    /\ \E i \in Tasks : pc[i] = "done" /\ ~raised[i]

\* C4: an admitted task sleeps exactly once whatever its outcome, and its
\* slot is released only after that sleep: a task has finished one sleep
\* exactly when it is releasing or has released its slot, and the slots taken
\* are those of the admitted tasks.
C4_SleepOnceBeforeRelease ==
    /\ \A i \in Tasks : sleeps[i] = IF pc[i] \in {"release", "done"} THEN 1 ELSE 0
    /\ semaphore = concurrency - Cardinality(Admitted)

\* a task that failed and a task that returned early have both slept and
\* released their slots
C4_Witness ==
    /\ \E i \in Tasks : pc[i] = "done" /\ raised[i] /\ sleeps[i] = 1
    /\ \E i \in Tasks : pc[i] = "done" /\ ~raised[i] /\ ~HasResult(i) /\ sleeps[i] = 1

\* C5: the caller's citations and their nested metadata maps are at every
\* point what they were before the call.
C5_InputUnchanged ==
    \A a \in InputAddrs : heap[a] = before[a]

\* the call has returned a result whose copy got a new title and a new
\* metadata map, next to a citation that had a metadata map
C5_Witness ==
    /\ main = "returned"
    /\ \E k \in DOMAIN collected :
          LET i == collected[k].task IN
          /\ heap[CitationCopy(i)].title # before[citations[i]].title
          /\ heap[CitationCopy(i)].metadata # before[citations[i]].metadata
    /\ \E k \in DOMAIN collected : before[citations[collected[k].task]].metadata # 0

\* C6: at most one result per input citation, and only for a citation with a
\* non-empty url and media_type "text" whose extracted text has at least 400
\* characters.
C6_ResultsOnlyForScraped ==
    /\ \A k, l \in DOMAIN collected : collected[k].task = collected[l].task => k = l
    /\ \A k \in DOMAIN collected :
          LET i == collected[k].task IN
          /\ i \in Tasks
          /\ before[citations[i]].url # ""
          /\ before[citations[i]].media_type = "text"
          /\ Truthy(text[i])
          /\ len(text[i]) >= MinContentLen

\* the call has returned one result for a batch with a citation whose text
\* was too short and none for it
C6_Witness ==
    /\ main = "returned"
    /\ Len(collected) = 1
    /\ \E i \in Tasks : pc[i] = "done" /\ ~raised[i] /\ ~HasResult(i)

\* what each of the three strategies yields on a page: the text the selector
\* loop ends with, the joined paragraphs of the main container, the text of
\* the whole page
Yields(pg) ==
    (IF Strategy1(pg, 1, None) = None THEN {} ELSE { Strategy1(pg, 1, None) })
    \cup (IF FindMain(pg, 1).kind = "elem" THEN { join(Lines(FindMain(pg, 1).paras)) } ELSE {})
    \cup (IF pg.body = Raised THEN {} ELSE { pg.body })

\* a strategy would yield more than MinArticleLen characters, even trimmed
\* and cleaned
SomeYieldExceedsFloor(pg) == \E t \in Yields(pg) : len(full_text(t)) > MinArticleLen

\* no browser operation fails on the page
Healthy(pg) ==
    /\ pg.goto = "ok"
    /\ pg.body # Raised
    /\ \A sel \in Selectors : pg.dom[sel].kind # "raise"

\* C7: fetch_article_content returns null when no strategy yields more than
\* 200 characters and a text when some strategy would.
C7_NullIffNoYieldExceedsFloor ==
    (fpc = "done" /\ result # Raised /\ Healthy(webpage))
        => (result = None <=> ~SomeYieldExceedsFloor(webpage))

\* C8: fetch_article_content never raises to its caller.
C8_FetchNeverRaises ==
    result # Raised

\* C9: no browsing context a task created is open once the task has finished.
C9_NoContextLeftOpen ==
    \A i \in Tasks : pc[i] = "done" => ctx[i].fetch # "open" /\ ctx[i].backfill # "open"

\* C10: the requests are for pages 1, 2, ... in order, at most max_page_count
\* of them, and none follows a page with fewer than 10 hits.
C10_PaginationStops ==
    /\ \A k \in DOMAIN requests : requests[k] = k
    /\ Len(requests) <= max_page_count
    /\ Len(replies) = Len(requests)
    /\ \A k \in DOMAIN replies :
          (replies[k].kind = "ok" /\ Len(replies[k].items) < PageSize)
              => k = Len(requests)

\* the call stopped after a short second page with pages left to request
C10_Witness ==
    /\ spc = "done"
    /\ Len(requests) = 2
    /\ max_page_count > 2
    /\ replies[2].kind = "ok"
    /\ Len(replies[2].items) \in 1 .. PageSize - 1

\* the links the pages before page k carried
LinksBefore(k) ==
    { LinkOf(replies[j].items[m]) : << j, m >> \in
        { jm \in (1 .. k - 1) \X (1 .. PageSize + 1) :
            jm[2] \in DOMAIN replies[jm[1]].items } } \ {0}

\* page k was answered with hits none of which carries a link that is new
NoNewItems(k) ==
    /\ replies[k].kind = "ok"
    /\ \A m \in DOMAIN replies[k].items :
          LinkOf(replies[k].items[m]) \in LinksBefore(k) \cup {0}

\* C11: no request follows a page none of whose links is new with respect
\* to the links of the earlier pages of the call.
C11_StopsOnNoNewItems ==
    \A k \in DOMAIN replies : NoNewItems(k) => k = Len(requests)

RECURSIVE AccumulatedUpTo(_)
\* the hits and links accumulated on pages 1..k
AccumulatedUpTo(k) ==
    IF k = 0 THEN [results |-> << >>, seen |-> {}]
    ELSE Accumulate(replies[k].items, AccumulatedUpTo(k - 1).results,
                    AccumulatedUpTo(k - 1).seen)

\* the request for page k failed
Failed(k) == replies[k].kind \in {"exception", "http_error", "bad_json"}

\* C12: when the request for page k fails, no request follows it, the call
\* does not raise, and what it returns are the citations built from exactly
\* the hits accumulated on pages 1..k-1.
C12_FailureReturnsAccumulated ==
    \A k \in DOMAIN replies : Failed(k) =>
        /\ k = Len(requests)
        /\ spc # "raised"
        /\ spc = "done" =>
              \E now \in Clock :
                  returned = ToCitations(AccumulatedUpTo(k - 1).results, 1, {},
                                         search_type, exclude_publishers, now)

\* the urls the hits given to the function carry
Urls == { LinkOf(all_results[i]) : i \in DOMAIN all_results } \ {0}

\* the first hit that carries url, in input order
FirstHit(url) ==
    all_results[CHOOSE i \in DOMAIN all_results :
                   /\ LinkOf(all_results[i]) = url
                   /\ \A j \in 1 .. i - 1 : LinkOf(all_results[j]) # url]

\* citation c is built from hit
BuiltFrom(c, hit) ==
    /\ c.url = LinkOf(hit)
    /\ c.title = hit.title
    /\ c.publisher = hit.source
    /\ \E now \in Clock : c.date = normalize_serper_date(hit.date, now)

\* the returned citations have pairwise distinct urls, none of them blank
DistinctUrls ==
    /\ \A a, b \in DOMAIN returned : returned[a].url = returned[b].url => a = b
    /\ \A a \in DOMAIN returned : returned[a].url # 0

\* C13 as stated: the returned citations have pairwise distinct non-blank
\* urls, and every url that some hit carries has exactly one citation, built
\* from the first hit that carries it; hits without url yield none.
C13_OnePerUrl ==
    spc = "done" =>
        /\ DistinctUrls
        /\ Len(returned) = Cardinality(Urls)
        /\ \A url \in Urls :
              \E a \in DOMAIN returned : BuiltFrom(returned[a], FirstHit(url))

\* C13 amended: the returned citations have pairwise distinct non-blank
\* urls; a url has exactly one citation, built from the first hit that
\* carries it, when the publisher of that hit is not excluded, and none when
\* it is; hits without url yield none.
C13_OnePerKeptUrl ==
    spc = "done" =>
        /\ DistinctUrls
        /\ Len(returned) =
              Cardinality({ url \in Urls : FirstHit(url).source \notin exclude_publishers })
        /\ \A url \in Urls :
              IF FirstHit(url).source \in exclude_publishers
              THEN \A a \in DOMAIN returned : returned[a].url # url
              ELSE \E a \in DOMAIN returned : BuiltFrom(returned[a], FirstHit(url))

\* two hits of different publishers share a url, a third has none, and the
\* function returned one citation
C13_Witness ==
    /\ spc = "done"
    /\ Len(all_results) = 3
    /\ LinkOf(all_results[1]) = LinkOf(all_results[2])
    /\ all_results[1].source # all_results[2].source
    /\ LinkOf(all_results[3]) = 0
    /\ Len(returned) = 1

\* C14: the ids of the returned citations are, in output order, the initial
\* of the source type followed by 1, 2, ..., whatever hits were skipped.
C14_DenseIds ==
    spc = "done" =>
        \A a \in DOMAIN returned :
            returned[a].citation_id = [initial |-> Initial(search_type), number |-> a]

\* C15: no returned citation has an excluded publisher, and every hit that
\* is the first to carry its url and whose publisher is not excluded has its
\* citation: a hit is dropped for its publisher only when it is excluded.
C15_ExcludedPublishersOnly ==
    spc = "done" =>
        /\ \A a \in DOMAIN returned : returned[a].publisher \notin exclude_publishers
        /\ \A url \in Urls :
              FirstHit(url).source \notin exclude_publishers =>
                  \E a \in DOMAIN returned :
                      /\ returned[a].url = url
                      /\ returned[a].publisher = FirstHit(url).source

\* with a publisher excluded, the function dropped a hit of that publisher
\* and returned the citation of a hit of another
C15_Witness ==
    /\ spc = "done"
    /\ exclude_publishers = {"Tabloid"}
    /\ \E url \in Urls : FirstHit(url).source = "Tabloid"
    /\ \E url \in Urls : FirstHit(url).source = "Gazette"
    /\ Len(returned) = 1

\* C16: _normalize_serper_date never raises, whatever the string and the
\* reference time.
C16_NormalizeNeverRaises ==
    normalized_date # Overflow

\* the argument, trimmed and in lower case
Folded == lower(raw_date)

\* t minus days days and minutes minutes, as a point in time
Back(t, days, minutes) ==
    Time(t.day - days + ((t.minute - minutes) \div MinutesPerDay),
         (t.minute - minutes) % MinutesPerDay, t.second)

\* what the rules of the claim give at the time now, the first that matches
\* deciding
Expected(now) ==
    IF MatchAgo(Folded, {"minute", "minutes"}) THEN Back(now, 0, Folded.toks[1].n)
    ELSE IF MatchAgo(Folded, {"hour", "hours"})
         THEN Back(now, 0, MinutesPerHour * Folded.toks[1].n)
    ELSE IF MatchAgo(Folded, {"day", "days"}) THEN Back(now, Folded.toks[1].n, 0)
    ELSE IF HasYesterday(Folded) THEN Time(now.day - 1, 0, 0)
    ELSE IF IsJustNow(Folded) THEN now
    ELSE NoTime

\* C17: when the absolute parse fails, the call returns T minus N units for
\* "<N> minutes/hours/days ago" in any letter case, midnight of the day
\* before T for a string that contains "yesterday", T for "just now",
\* "moments ago" and "seconds ago", and None for every other string, the
\* first rule that matches deciding.
C17_RelativeRules ==
    (normalized_date # Unset /\ ParseFails(Folded)) =>
        \E now \in Nows(reference_dt) : normalized_date = Expected(now)

\* the empty lines of a text: its runs of two or more newlines, with the
\* positions before its first and after its last run
Breaks(t) == {k \in DOMAIN t : t[k].c = "n" /\ t[k].n >= 2} \cup {0, Len(t) + 1}

\* the paragraph of t that begins after break b: the runs up to the next
\* break, trimmed
ParagraphAfter(t, b) ==
    LET next == CHOOSE c \in Breaks(t) :
                    c > b /\ \A d \in Breaks(t) : d > b => c <= d
    IN strip(SubSeq(t, b + 1, next - 1))

\* the breaks of t that a paragraph begins after
Begins(t) == Breaks(t) \ {Len(t) + 1}

\* those whose paragraph is longer than the floor
LongBegins(t) == {b \in Begins(t) : len(ParagraphAfter(t, b)) > MinParagraphLen}

\* the paragraphs of t longer than the floor, in the order of the text
LongParagraphs(t) ==
    [k \in 1 .. Cardinality(LongBegins(t)) |->
        ParagraphAfter(t, CHOOSE b \in LongBegins(t) :
                              Cardinality({c \in LongBegins(t) : c < b}) = k - 1)]

\* C18: the chunks are the paragraphs of the extracted text that are longer
\* than 80 characters, in the order of the text, labeled 1..k, with the id
\* of the citation, and their spans do not overlap:
\* char_start(k) <= char_end(k) <= char_start(k + 1).
C18_ChunksAreLongParagraphs ==
    chunked.done =>
        LET chunks == chunked.chunks
            paragraphs == LongParagraphs(page_text)
        IN /\ DOMAIN chunks = DOMAIN paragraphs
           /\ \A k \in DOMAIN chunks :
                 /\ chunks[k].text = paragraphs[k]
                 /\ chunks[k].section = k
                 /\ chunks[k].citation_id = cited
                 /\ chunks[k].char_start <= chunks[k].char_end
           /\ \A k \in 1 .. Len(chunks) - 1 :
                 chunks[k].char_end <= chunks[k + 1].char_start

\* the chunks of a text of three paragraphs are built, the one in the
\* middle dropped
C18_Witness ==
    /\ chunked.done
    /\ Cardinality(Begins(page_text)) = 3
    /\ Len(chunked.chunks) = 2
    /\ len(ParagraphAfter(page_text, 0)) > MinParagraphLen
    /\ chunked.chunks[1].text = ParagraphAfter(page_text, 0)

\* the characters of a text, one by one
RECURSIVE Characters(_)
Characters(t) ==
    IF t = << >> THEN << >>
    ELSE [k \in 1 .. t[1].n |-> t[1].c] \o Characters(Tail(t))

\* text[from:to] of Python
Slice(t, from, to) ==
    SubSeq(Characters(t), from + 1, IF to > len(t) THEN len(t) ELSE to)

\* C19: for every chunk, the characters of the extracted text from
\* char_start to char_end are the chunk's text.
C19_OffsetsIntoSourceText ==
    chunked.done =>
        \A k \in DOMAIN chunked.chunks :
            Slice(page_text, chunked.chunks[k].char_start, chunked.chunks[k].char_end)
                = Characters(chunked.chunks[k].text)

\* an extracted text of exactly three paragraphs of 90, 40 and 120 characters
ThreeParagraphs ==
    << Run("w", 90), Run("n", 2), Run("w", 40), Run("n", 2), Run("w", 120) >>

\* the same three paragraphs followed by a fourth of 201 characters
FourParagraphs ==
    ThreeParagraphs \o << Run("n", 2), Run("w", 100), Run("s", 1), Run("w", 100) >>

\* C20 as stated: a finished task whose extracted text is three paragraphs
\* of 90, 40 and 120 characters has a result of exactly 2 chunks, the
\* paragraphs of 90 and 120 characters labeled 1 and 2.
C20_ThreeParagraphsTwoChunks ==
    \A i \in Tasks :
        (pc[i] = "done" /\ text[i] = ThreeParagraphs) =>
            \E e \in DOMAIN collected :
                /\ collected[e].task = i
                /\ Len(collected[e].chunks) = 2
                /\ collected[e].chunks[1].text = W(90)
                /\ collected[e].chunks[1].section = 1
                /\ collected[e].chunks[2].text = W(120)
                /\ collected[e].chunks[2].section = 2

\* C20 amended: a task whose extracted text is these three paragraphs has
\* no result, the text being shorter than the content floor; a result for
\* the text of these paragraphs and a fourth has exactly 3 chunks, the
\* paragraph of 40 characters dropped, the others labeled 1, 2, 3 in order.
C20_FloorBeforeChunks ==
    /\ \A i \in Tasks : text[i] = ThreeParagraphs => ~HasResult(i)
    /\ \A e \in DOMAIN collected :
          text[collected[e].task] = FourParagraphs =>
              LET chunks == collected[e].chunks IN
              /\ Len(chunks) = 3
              /\ \A k \in 1 .. 3 : chunks[k].section = k
              /\ chunks[1].text = W(90)
              /\ chunks[2].text = W(120)
              /\ chunks[3].text = << Run("w", 100), Run("s", 1), Run("w", 100) >>

\* the call returned a result for the text of four paragraphs and none for
\* the text of three
C20_Witness ==
    /\ main = "returned"
    /\ \E i \in Tasks : pc[i] = "done" /\ text[i] = ThreeParagraphs /\ ~HasResult(i)
    /\ \E e \in DOMAIN collected : text[collected[e].task] = FourParagraphs

\* C21: the citation of every result of scrape_news_playwright has media_type
\* "text" or "video", "video" exactly when its source_type is "videos".
C21_MediaTypeTextOrVideo ==
    \A k \in DOMAIN collected :
        LET c == heap[collected[k].citation] IN
        /\ c.media_type \in {"text", "video"}
        /\ c.media_type = "video" <=> c.source_type = "videos"

\* the task has left its try block with a text that passes the content floor
\* for a citation whose title was missing or a placeholder: it went into the
\* title backfill
Backfilled(i) ==
    /\ pc[i] \in {"sleep", "release", "done"}
    /\ ~TooShort(text[i])
    /\ NeedsTitle(before[citations[i]])

\* C22: a task that went into the title backfill produces its ScrapeResult
\* whatever step of the backfill failed, and the result's title is the title
\* the citation had unless a non-empty page title was read.
C22_BackfillNonFatal ==
    \A i \in Tasks :
        Backfilled(i) =>
            /\ HasResult(i)
            /\ \A k \in DOMAIN collected :
                  collected[k].task = i =>
                      heap[collected[k].citation].title
                          \in {before[citations[i]].title} \cup (PageTitles \ {""})

\* the metadata map the caller gave with the citation of result k, the empty
\* map for None
InputMetadata(k) ==
    LET old == before[citations[collected[k].task]].metadata IN
    IF old = 0 THEN << >> ELSE before[old].items

SomeQualifies == \E i \in Tasks : Qualifies(before[citations[i]])

\* every task was admitted and has finished, the browser is closed and the
\* call has returned
Returned ==
    /\ main = "returned"
    /\ browser = "closed"
    /\ \A i \in Tasks : Qualifies(before[citations[i]]) => pc[i] = "done" /\ sleeps[i] = 1

\* the order of the labels of a task and of the coordinator
LabelRank(l) ==
    CASE l = "none" -> 0 [] l = "wait" -> 1 [] l = "new_context" -> 2
      [] l = "route" -> 3 [] l = "new_page" -> 4 [] l = "body" -> 5
      [] l = "close" -> 6 [] l = "bf_new_context" -> 7 [] l = "bf_new_page" -> 8
      [] l = "bf_goto" -> 9 [] l = "bf_title" -> 10 [] l = "bf_close" -> 11
      [] l = "sleep" -> 12 [] l = "release" -> 13 [] l = "done" -> 14
      [] l = "start" -> 0 [] l = "gather" -> 1 [] l = "returned" -> 2

\* a step moves the coordinator forward, or one task forward and no other
Advances ==
    \/ LabelRank(main') > LabelRank(main)
    \/ /\ main' = main
       /\ \E i \in Tasks :
             /\ LabelRank(pc'[i]) > LabelRank(pc[i])
             /\ \A j \in Tasks \ {i} : pc'[j] = pc[j]

\* a step is possible: the coordinator can start or can close the browser, a
\* waiting task can be admitted, or an admitted task is at an await that ends
CanStep ==
    \/ main = "start"
    \/ main = "gather" /\ GatherDone(pc)
    \/ \E i \in Tasks : pc[i] = "wait" /\ CanAcquire(semaphore)
    \/ \E i \in Tasks : pc[i] \notin {"none", "wait", "done"}

ChainRank(x) ==
    CASE x = "structural" -> Len(article_selectors) + 1
      [] x = "whole-page" -> Len(article_selectors) + 2
      [] OTHER -> CHOOSE k \in DOMAIN article_selectors : article_selectors[k] = x

\* no text, or fewer than 200 characters once trimmed
Short(tc) == tc = None \/ len(strip(tc)) < MinArticleLen

\* the selector finds an element whose text exceeds 200 trimmed characters
Exceeds(x) ==
    /\ x \in Selectors
    /\ webpage.dom[x].kind = "elem"
    /\ len(strip(webpage.dom[x].text)) > MinArticleLen

\* C25: within one call a selector or strategy runs only after those before
\* it in the chain (selectors in order, then structural, then whole-page);
\* the structural and the whole-page strategy run only when the text held at
\* that point is absent or has fewer than 200 trimmed characters; nothing
\* runs after a selector whose text exceeded 200 trimmed characters.
C25_StrategyOrder ==
    [][tried' # tried =>
          \E x \in Selectors \cup {"structural", "whole-page"} :
              /\ tried' = Append(tried, x)
              /\ \A k \in DOMAIN tried : ChainRank(tried[k]) < ChainRank(x)
              /\ x \in {"structural", "whole-page"} => Short(text_content)
              /\ \A k \in DOMAIN tried : ~Exceeds(tried[k])]_vars

\* the call ended at the third selector, whose text of 201 trimmed characters
\* stopped the loop that a text of exactly 200 had not stopped, and no
\* strategy ran after it
C25_Witness ==
    /\ fpc = "done"
    /\ tried = SubSeq(article_selectors, 1, 3)
    /\ webpage.dom[tried[1]].kind = "elem"
    /\ len(strip(webpage.dom[tried[1]].text)) = MinArticleLen
    /\ Exceeds(tried[3])
    /\ result # None

\* the tasks of get.py's coordinator that have ended
GetEnded == {i \in DOMAIN get_pc : get_pc[i] \in {"done", "failed", "cancelled"}}

\* C26: in the coordinator of get.py a failure while processing one hit does
\* not leave the coordinator, no task of another hit is cut short, and the
\* browser goes only after every task has ended.
C26_HitFailureIsolated ==
    /\ get_main # "raised"
    /\ \A i \in DOMAIN get_pc : get_pc[i] # "cancelled"
    /\ get_browser \in {"closed", "stopped"} => GetEnded = DOMAIN get_pc

\* the id of the a-th returned citation as the string the function writes
IdString(a) == Format(search_type, returned[a].citation_id.number)

RECURSIVE Value(_)
\* the number a sequence of decimal digits reads as
Value(digits) ==
    IF digits = << >> THEN 0
    ELSE 10 * Value(SubSeq(digits, 1, Len(digits) - 1)) + digits[Len(digits)]

\* C27: the ids of the citations of one returned batch are pairwise distinct
\* and their numeric parts strictly increase in output order, whatever hits
\* were skipped.
C27_IdsDistinctIncreasing ==
    spc = "done" =>
        \A a, b \in DOMAIN returned :
            a < b => /\ IdString(a) # IdString(b)
                     /\ Value(Tail(IdString(a))) < Value(Tail(IdString(b)))

\* the function returned two citations from three hits, one of them skipped
\* between the two
C27_Witness ==
    /\ spc = "done"
    /\ Len(all_results) = 3
    /\ Len(returned) = 2
    /\ IdString(1) = << Initial(search_type), 0, 0, 0, 1 >>
    /\ IdString(2) = << Initial(search_type), 0, 0, 0, 3 >>

====
